---------------------------- MODULE Spec2Model ----------------------------
(***************************************************************************)
(* Media Stack: a composite media player built over a wiring map of        *)
(* Home Assistant media_player entities.                                   *)
(* Model of custom_components/media_stack/media_player.py.                 *)
(***************************************************************************)
EXTENDS Naturals, Integers, Sequences, FiniteSets, TLC

VARIABLES
    mapping,        \* MediaStack._mapping: ordered dict entity_id -> {source: entity_id}
    states,         \* hass.states: dict entity_id -> State (absent key = no snapshot)
    sources,        \* MediaStack._sources: list of SourceInfo
    calls,          \* the async_select_source invocations so far: [label, result]
    tasks,          \* the _switch_source coroutines gathered by those invocations
    ext,            \* ghost: number of state changes made from outside so far
    fresh,          \* ghost: _sources was computed by async_update from the current hass.states
    update_error    \* ghost: the last async_update raised (RecursionError) and left _sources alone

vars == <<mapping, states, sources, calls, tasks, ext, fresh, update_error>>

-----------------------------------------------------------------------------
(* Values *)

\* Python None, for optional string-valued attributes and ids.
None == "None"

\* hass.states.get(...) returning None.
NoState == [entity_id |-> None]

STATE_ON == "on"
STATE_OFF == "off"
STATE_STANDBY == "standby"
STATE_UNAVAILABLE == "unavailable"
STATE_IDLE == "idle"

OFF_STATES == {STATE_OFF, STATE_STANDBY, STATE_UNAVAILABLE}

STEREO == "media_player.stereo"
TV == "media_player.tv"
PVR == "media_player.pvr"

Entities == {STEREO, TV, PVR}

\* State.name of an entity without friendly_name: its object id.
EntityName(entity_id) ==
    CASE entity_id = STEREO -> "stereo"
      [] entity_id = TV -> "tv"
      [] entity_id = PVR -> "pvr"

\* Depth at which the interpreter stops a recursion (sys.getrecursionlimit(),
\* scaled down): the generator chain of _get_root_sources is one frame per level.
RecursionLimit == 6

\* Invocations of async_select_source and external state changes in one run.
MaxCalls == 2
MaxExternal == 1

-----------------------------------------------------------------------------
(* Helpers on sequences *)

Range(s) == {s[i] : i \in 1..Len(s)}

RECURSIVE Concat(_)
Concat(ss) == IF ss = <<>> THEN <<>> ELSE Head(ss) \o Concat(Tail(ss))

\* Python truthiness of an optional string.
Truthy(s) == s # None /\ s # ""

-----------------------------------------------------------------------------
(* hass.states and the wiring map *)

StatesGet(st, entity_id) ==
    IF entity_id \in DOMAIN st THEN st[entity_id] ELSE NoState

\* dict.get(key, {}) on the ordered wiring map (a sequence of <<key, links>>).
MappingGet(mappings, entity_id) ==
    IF \E i \in 1..Len(mappings) : mappings[i][1] = entity_id
    THEN mappings[CHOOSE i \in 1..Len(mappings) : mappings[i][1] = entity_id][2]
    ELSE <<>>

LinkGet(links, source) ==
    IF source \in DOMAIN links THEN links[source] ELSE None

-----------------------------------------------------------------------------
(* SourceInfo: a node and its parent chain.  A SourceInfo is the sequence   *)
(* of hops reached by following .parent: element 1 is the node itself, the *)
(* last element the root; parent None is the empty sequence.               *)

SourceInfo(entity_id, entity_name, source, parent, active) ==
    <<[entity_id |-> entity_id, entity_name |-> entity_name,
       source |-> source, active |-> active]>> \o parent

InfoParent(info) == Tail(info)

\* A label that is qualified even when the node has no source.
InfoNameQualified(info) == info[1].entity_name \o ": " \o info[1].source

\* SourceInfo.name
InfoName(info) ==
    IF Truthy(info[1].source)
    THEN info[1].entity_name \o ": " \o info[1].source
    ELSE info[1].entity_name

\* _get_parents: the node, then its parent, ... up to the root.
GetParents(info) == info

GetSources(attributes) ==
    LET source == attributes.source
        srcs == attributes.source_list
    IN  IF Truthy(source) /\ source \notin Range(srcs)
        THEN Append(srcs, source)
        ELSE srcs

\* A cycle guard that looks at the ancestors above the parent only.
InParentsAbove(source_entity_id, parent) ==
    parent # <<>> /\ source_entity_id \in {x.entity_id : x \in Range(Tail(parent))}

\* A cycle guard that never stops the descent.
InParentsNever(source_entity_id, parent) == FALSE

\* The cycle guard of _get_root_sources: the wired entity is already on the
\* parent chain.
InParents(source_entity_id, parent) ==
    source_entity_id \in {x.entity_id : x \in Range(GetParents(parent))}

\* A resolution that descends without looking whether the wired entity has
\* a snapshot: a source wired to an entity without snapshot yields nothing.
RECURSIVE GetRootSourcesUnchecked(_, _, _, _)
GetRootSourcesUnchecked(st, mappings, state, parent) ==
    IF state = NoState THEN [err |-> FALSE, out |-> <<>>]
    ELSE IF Len(parent) >= RecursionLimit THEN [err |-> TRUE, out |-> <<>>]
    ELSE
    LET links == MappingGet(mappings, state.entity_id)
        current == state.source
        srcs == GetSources(state)
        active == parent = <<>> \/ parent[1].active
        ForSource(source) ==
            LET info == SourceInfo(state.entity_id, state.name, source, parent,
                                   active /\ (current = source))
                source_entity_id == LinkGet(links, source)
            IN  IF source_entity_id = None \/ InParents(source_entity_id, parent)
                THEN [err |-> FALSE, out |-> <<info>>]
                ELSE GetRootSourcesUnchecked(st, mappings,
                                             StatesGet(st, source_entity_id), info)
        parts == [i \in 1..Len(srcs) |-> ForSource(srcs[i])]
    IN  IF srcs = <<>>
        THEN [err |-> FALSE,
              out |-> <<SourceInfo(state.entity_id, state.name, current, parent, active)>>]
        ELSE [err |-> \E i \in 1..Len(srcs) : parts[i].err,
              out |-> Concat([i \in 1..Len(srcs) |-> parts[i].out])]

\* _get_root_sources as [err, out]: out is the list of yielded SourceInfo,
\* err tells that the recursion ran into RecursionLimit.
RECURSIVE GetRootSources(_, _, _, _)
GetRootSources(st, mappings, state, parent) ==
    IF state = NoState THEN [err |-> FALSE, out |-> <<>>]
    ELSE IF Len(parent) >= RecursionLimit THEN [err |-> TRUE, out |-> <<>>]
    ELSE
    LET links == MappingGet(mappings, state.entity_id)
        current == state.source
        srcs == GetSources(state)
        active == parent = <<>> \/ parent[1].active
        ForSource(source) ==
            LET info == SourceInfo(state.entity_id, state.name, source, parent,
                                   active /\ (current = source))
                source_entity_id == LinkGet(links, source)
            IN  IF source_entity_id = None \/ InParents(source_entity_id, parent)
                THEN [err |-> FALSE, out |-> <<info>>]
                ELSE IF StatesGet(st, source_entity_id) = NoState
                THEN [err |-> FALSE, out |-> <<info>>]
                ELSE GetRootSources(st, mappings, StatesGet(st, source_entity_id), info)
        parts == [i \in 1..Len(srcs) |-> ForSource(srcs[i])]
    IN  IF srcs = <<>>
        THEN [err |-> FALSE,
              out |-> <<SourceInfo(state.entity_id, state.name, current, parent, active)>>]
        ELSE [err |-> \E i \in 1..Len(srcs) : parts[i].err,
              out |-> Concat([i \in 1..Len(srcs) |-> parts[i].out])]

\* _all_entities
AllEntities(mappings) ==
    {mappings[i][1] : i \in 1..Len(mappings)}
    \cup UNION {{mappings[i][2][s] : s \in DOMAIN mappings[i][2]} : i \in 1..Len(mappings)}

-----------------------------------------------------------------------------
(* MediaStack properties, as functions of _mapping, hass.states, _sources  *)

\* next((x for x in self._sources if x.active), None), as an index (0 = None)
FirstActive(srcs) ==
    IF \E i \in 1..Len(srcs) : srcs[i][1].active
    THEN CHOOSE i \in 1..Len(srcs) :
            srcs[i][1].active /\ \A j \in 1..(i - 1) : ~srcs[j][1].active
    ELSE 0

SourceEntity(st, srcs) ==
    IF FirstActive(srcs) = 0 THEN NoState
    ELSE StatesGet(st, srcs[FirstActive(srcs)][1].entity_id)

\* A first loop of _sink_entity that also passes over idle entities.
SinkQualifiesNotIdle(state) ==
    state # NoState /\ state.state \notin (OFF_STATES \cup {STATE_IDLE})

\* Whether _sink_entity takes a key in its first loop.
SinkQualifies(state) ==
    state # NoState /\ state.state \notin OFF_STATES

SinkEntity(mappings, st) ==
    LET ok == {i \in 1..Len(mappings) : SinkQualifies(StatesGet(st, mappings[i][1]))}
    IN  IF ok # {}
        THEN StatesGet(st, mappings[CHOOSE i \in ok : \A j \in ok : i <= j][1])
        ELSE IF Len(mappings) > 0
        THEN StatesGet(st, mappings[1][1])
        ELSE NoState

\* _get_attribute(state, attribute) with default None
GetAttribute(state, attribute) ==
    IF state # NoState THEN state[attribute] ELSE None

\* A state that does not look at the status of the active leaf's device.
StateOfSink(mappings, st, srcs) ==
    LET sink_entity == SinkEntity(mappings, st)
    IN  IF sink_entity = NoState \/ sink_entity.state \in OFF_STATES
        THEN STATE_STANDBY
        ELSE sink_entity.state

\* MediaStack.state
StateOf(mappings, st, srcs) ==
    LET source_entity == SourceEntity(st, srcs)
        sink_entity == SinkEntity(mappings, st)
    IN  IF sink_entity = NoState \/ sink_entity.state \in OFF_STATES
        THEN STATE_STANDBY
        ELSE IF source_entity = NoState
        THEN sink_entity.state
        ELSE IF source_entity.state \in OFF_STATES
        THEN STATE_STANDBY
        ELSE source_entity.state

\* MediaStack.source
SourceOf(srcs) ==
    IF FirstActive(srcs) = 0 THEN None ELSE InfoName(srcs[FirstActive(srcs)])

\* The labels a node can have here, in the order of str comparison (by code
\* point, a prefix before its extensions), which is the order of sorted().
LabelsInOrder ==
    <<"pvr", "pvr: BBC", "stereo", "stereo: AUX", "stereo: DISPLAY",
      "tv", "tv: HDMI 1", "tv: HDMI 2", "tv: HDMI 3">>

LabelLess(a, b) ==
    (CHOOSE k \in 1..Len(LabelsInOrder) : LabelsInOrder[k] = a)
        < (CHOOSE k \in 1..Len(LabelsInOrder) : LabelsInOrder[k] = b)

\* MediaStack.source_list
SourceList(srcs) ==
    SortSeq([i \in 1..Len(srcs) |-> InfoName(srcs[i])], LabelLess)

\* MediaStack.volume_level
VolumeLevel(mappings, st) ==
    GetAttribute(SinkEntity(mappings, st), "volume_level")

\* MediaStack.is_volume_muted
IsVolumeMuted(mappings, st) ==
    GetAttribute(SinkEntity(mappings, st), "is_volume_muted")

\* getattr(self, attr) for the attributes of ATTR_TO_PROPERTY that the stack defines
Property(mappings, st, srcs, attr) ==
    CASE attr = "volume_level" -> VolumeLevel(mappings, st)
      [] attr = "is_volume_muted" -> IsVolumeMuted(mappings, st)
      [] attr = "source" -> SourceOf(srcs)

\* One pass of the loop of state_attributes: the value published for attr
\* (None: the key is left out of attrs).
PublishedAttr(mappings, st, srcs, attr) ==
    LET value == Property(mappings, st, srcs, attr)
    IN  IF value = None
        THEN GetAttribute(SourceEntity(st, srcs), attr)
        ELSE value

\* MediaStack.state_attributes (the keys the model follows; None = key absent)
StateAttributes(mappings, st, srcs) ==
    IF StateOf(mappings, st, srcs) = STATE_OFF
    THEN [volume_level |-> None, is_volume_muted |-> None, source |-> None,
          source_entity_id |-> None, sink_entity_id |-> None]
    ELSE
    [volume_level |-> PublishedAttr(mappings, st, srcs, "volume_level"),
     is_volume_muted |-> PublishedAttr(mappings, st, srcs, "is_volume_muted"),
     source |-> PublishedAttr(mappings, st, srcs, "source"),
     source_entity_id |-> IF SourceEntity(st, srcs) # NoState
                          THEN SourceEntity(st, srcs).entity_id ELSE None,
     sink_entity_id |-> IF SinkEntity(mappings, st) # NoState
                        THEN SinkEntity(mappings, st).entity_id ELSE None]

-----------------------------------------------------------------------------
(* Inputs: wiring maps and device snapshots *)

State(entity_id, state, source, source_list, volume_level, is_volume_muted) ==
    [entity_id |-> entity_id, name |-> EntityName(entity_id), state |-> state,
     source |-> source, source_list |-> source_list,
     volume_level |-> volume_level, is_volume_muted |-> is_volume_muted]

\* hass.states holding the given snapshots (NoState: the entity has none)
MkStates(a, b, c) ==
    LET f == (STEREO :> a @@ TV :> b @@ PVR :> c)
    IN  [e \in {x \in Entities : f[x] # NoState} |-> f[e]]

\* The configuration of the test suite restricted to three entities (a
\* two-entity cycle), and variations: a chain, a self-wired entity, one
\* entity behind two sources, a three-entity cycle, keys in another order,
\* no keys at all.
MapCycle == <<<<STEREO, ("DISPLAY" :> TV)>>, <<TV, ("HDMI 1" :> STEREO @@ "HDMI 3" :> PVR)>>>>
MapChain == <<<<STEREO, ("DISPLAY" :> TV)>>, <<TV, ("HDMI 3" :> PVR)>>>>
MapSelf == <<<<TV, ("HDMI 1" :> TV @@ "HDMI 3" :> PVR)>>>>
MapTwice == <<<<TV, ("HDMI 1" :> PVR @@ "HDMI 3" :> PVR)>>, <<STEREO, ("DISPLAY" :> TV)>>>>
MapRing == <<<<STEREO, ("DISPLAY" :> TV)>>, <<TV, ("HDMI 3" :> PVR)>>, <<PVR, ("BBC" :> STEREO)>>>>
MapEmpty == <<>>

Mappings == {MapCycle, MapChain, MapSelf, MapTwice, MapRing, MapEmpty}

Statuses == {STATE_ON, STATE_OFF, STATE_STANDBY, STATE_UNAVAILABLE, STATE_IDLE}

\* Source names an entity may report, and the lists it may advertise
\* (empty, partial, full, and one with a repeated name).
SourceNames(entity_id) ==
    CASE entity_id = STEREO -> {"DISPLAY", "AUX"}
      [] entity_id = TV -> {"HDMI 1", "HDMI 3"}
      [] entity_id = PVR -> {"BBC"}

SourceLists(entity_id) ==
    CASE entity_id = STEREO -> {<<>>, <<"DISPLAY">>, <<"AUX", "DISPLAY">>, <<"AUX", "AUX">>}
      [] entity_id = TV -> {<<>>, <<"HDMI 1">>, <<"HDMI 1", "HDMI 3">>, <<"HDMI 3", "HDMI 3">>}
      [] entity_id = PVR -> {<<>>, <<"BBC">>}

\* The snapshots hass.states may hold for an entity: one of options when the
\* wiring map names the entity, none when it does not (the stack never
\* looks at such an entity).
Wired(mappings, entity_id, options) ==
    IF entity_id \in AllEntities(mappings) THEN options ELSE {NoState}

\* What the devices report as volume: the amplifier reports none, the
\* others do.
DeviceVolume(entity_id) ==
    CASE entity_id = STEREO -> None
      [] entity_id = TV -> "0.4"
      [] entity_id = PVR -> "0.8"

DeviceMuted(entity_id) ==
    CASE entity_id = STEREO -> None
      [] entity_id = TV -> "False"
      [] entity_id = PVR -> "True"

\* Snapshots for the resolution: every status, source and source list.
ResolveStates(entity_id) ==
    {NoState} \cup
    {State(entity_id, s, src, lst, DeviceVolume(entity_id), DeviceMuted(entity_id)) :
        s \in (IF entity_id = PVR THEN {STATE_ON, STATE_OFF} ELSE Statuses),
        src \in {None} \cup SourceNames(entity_id),
        lst \in SourceLists(entity_id)}

-----------------------------------------------------------------------------
(* Operations *)

\* MediaStack.async_update
AsyncUpdate ==
    LET res == GetRootSources(states, mapping, SinkEntity(mapping, states), <<>>)
    IN  /\ ~fresh
        /\ sources' = IF res.err THEN sources ELSE res.out
        /\ update_error' = res.err
        /\ fresh' = ~res.err
        /\ UNCHANGED <<mapping, states, calls, tasks, ext>>

InitResolve ==
    /\ mapping \in Mappings
    /\ states \in {MkStates(a, b, c) : a \in Wired(mapping, STEREO, ResolveStates(STEREO)),
                                       b \in Wired(mapping, TV, ResolveStates(TV)),
                                       c \in Wired(mapping, PVR, ResolveStates(PVR))}
    /\ sources = <<>>
    /\ calls = <<>>
    /\ tasks = <<>>
    /\ ext = 0
    /\ fresh = FALSE
    /\ update_error = FALSE

NextResolve == AsyncUpdate

SpecResolve == InitResolve /\ [][NextResolve]_vars

-----------------------------------------------------------------------------
(* Switching: async_select_source and the _switch_source coroutines *)

Commands == {"turn_on", "select_source"}

\* A coroutine that powers on every device of the off-set, not only the
\* ones that are off.
SwitchSourceOffStates(pc, state, source) ==
    CASE pc = "start" /\ state = NoState -> "failed"
      [] pc = "start" /\ state # NoState /\ state.state \in OFF_STATES -> "turn_on"
      [] pc = "select_source" -> "done"
      [] OTHER -> IF state.source # source THEN "select_source" ELSE "done"

\* _switch_source(hass, entity_id, source): where the coroutine goes next
\* from pc, with state the snapshot it read when it started.  "start" is its
\* entry; "turn_on" and "select_source" are its two awaits; it ends "done",
\* or "failed" when reading state.state of a missing snapshot raises.
SwitchSource(pc, state, source) ==
    CASE pc = "start" /\ state = NoState -> "failed"
      [] pc = "start" /\ state # NoState /\ state.state = STATE_OFF -> "turn_on"
      [] pc = "select_source" -> "done"
      [] OTHER -> IF state.source # source THEN "select_source" ELSE "done"

\* A coroutine that looks its source name up again in the tree as it is
\* now, each time it moves on.
AdvanceResolved(t, pc) ==
    LET nodes == UNION {{sources[i][k] : k \in 1..Len(sources[i])} : i \in 1..Len(sources)}
        now == {n \in nodes : n.entity_id = t.entity_id}
    IN  [t EXCEPT !.pc = pc,
                  !.cmds = IF pc \in Commands THEN Append(@, pc) ELSE @,
                  !.source = IF now = {} THEN @ ELSE (CHOOSE n \in now : TRUE).source]

\* A coroutine moved to pc: when that is an await of a service call, the
\* call is issued (cmds: the services the coroutine has called so far).
Advance(t, pc) ==
    [t EXCEPT !.pc = pc,
              !.cmds = IF pc \in Commands THEN Append(@, pc) ELSE @]

\* The coroutines of asyncio.gather(*[_switch_source(hass, x.entity_id,
\* x.source) for x in _get_parents(info)]) as gather schedules them: created
\* and not yet started, none has read its snapshot (state) or called a
\* service.  Hop 1 is the target, the last the root.
Gather(call, info) ==
    LET hops == GetParents(info)
    IN  [k \in 1..Len(hops) |->
            [call |-> call, hop |-> k,
             entity_id |-> hops[k].entity_id, source |-> hops[k].source,
             state |-> NoState, pc |-> "start", cmds |-> <<>>]]

\* The first step of a _switch_source coroutine: it reads its snapshot from
\* hass.states as they are now and runs up to its first await, or to its
\* end.
FirstStep(st, t) ==
    Advance([t EXCEPT !.state = StatesGet(st, t.entity_id)],
            SwitchSource("start", StatesGet(st, t.entity_id), t.source))

\* Whether every coroutine of the gather of invocation call has taken its
\* first step.  The wake-up of a coroutine whose service call returned, and
\* that of the invocation when its gather ends, are queued behind the first
\* steps that gather scheduled, so they wait for this.
Started(call) ==
    \A i \in 1..Len(tasks) :
        tasks[i].call = call => tasks[i].pc \notin {"start", "start_turn_off"}

\* The event loop runs the first step of coroutine i of a gather.  gather
\* made one task per coroutine, each with its own handle in the queue of
\* the loop: they start in the order of their creation, and what another
\* thread queued meanwhile runs between two of them.
GatherStarts(i) ==
    /\ i \in 1..Len(tasks)
    /\ tasks[i].pc = "start"
    /\ \A j \in 1..(i - 1) : tasks[j].call = tasks[i].call => tasks[j].pc # "start"
    /\ tasks' = [tasks EXCEPT ![i] = FirstStep(states, tasks[i])]
    /\ UNCHANGED <<mapping, states, sources, calls, ext, fresh, update_error>>

\* A lookup that falls back to the first entry when no name matches.
FindSourceOrFirst(srcs, source) ==
    IF \E i \in 1..Len(srcs) : InfoName(srcs[i]) = source
    THEN CHOOSE i \in 1..Len(srcs) :
            InfoName(srcs[i]) = source /\ \A j \in 1..(i - 1) : InfoName(srcs[j]) # source
    ELSE IF srcs = <<>> THEN 0 ELSE 1

\* next((x for x in self._sources if x.name == source), None), as an index
FindSource(srcs, source) ==
    IF \E i \in 1..Len(srcs) : InfoName(srcs[i]) = source
    THEN CHOOSE i \in 1..Len(srcs) :
            InfoName(srcs[i]) = source /\ \A j \in 1..(i - 1) : InfoName(srcs[j]) # source
    ELSE 0

\* MediaStack.async_select_source(source), up to the await of the gather,
\* where it returns to the event loop with its coroutines scheduled
SelectSource(source) ==
    /\ IF FindSource(sources, source) = 0
       THEN /\ calls' = Append(calls, [label |-> source, result |-> "KeyError"])
            /\ UNCHANGED tasks
       ELSE /\ calls' = Append(calls, [label |-> source, result |-> "running"])
            /\ tasks' = tasks \o Gather(Len(calls) + 1,
                                        sources[FindSource(sources, source)])
    /\ UNCHANGED <<mapping, states, sources, ext, fresh, update_error>>

\* A device that applies a service call it receives.
Apply(st, entity_id, service, source) ==
    IF entity_id \notin DOMAIN st THEN st
    ELSE CASE service = "turn_on" -> [st EXCEPT ![entity_id].state = STATE_ON]
           [] service = "turn_off" -> [st EXCEPT ![entity_id].state = STATE_OFF]
           [] service = "select_source" -> [st EXCEPT ![entity_id].source = source]

\* The service call task i awaits returns (ok: the device applied it, else it
\* raised), and the coroutine runs on to its next await or to its end.
CommandReturns(i, ok) ==
    /\ i \in 1..Len(tasks)
    /\ tasks[i].pc \in Commands
    /\ Started(tasks[i].call)
    /\ LET t == tasks[i]
       IN  /\ states' = IF ok THEN Apply(states, t.entity_id, t.pc, t.source) ELSE states
           /\ tasks' = [tasks EXCEPT ![i] =
                            Advance(t, IF ok THEN SwitchSource(t.pc, t.state, t.source)
                                       ELSE "failed")]
           /\ fresh' = (fresh /\ states' = states)
    /\ UNCHANGED <<mapping, sources, calls, ext, update_error>>

\* A gather that collects the exceptions of its coroutines instead of
\* raising the first one (return_exceptions=True).
GatherResultCollected(ts) ==
    IF \A i \in 1..Len(ts) : ts[i].pc \in {"done", "failed"} THEN "ok" ELSE "running"

\* The await of the gather ends: with the first exception as soon as a
\* coroutine has raised, with success once all of them are done.
GatherResult(ts) ==
    IF \E i \in 1..Len(ts) : ts[i].pc = "failed" THEN "error"
    ELSE IF \A i \in 1..Len(ts) : ts[i].pc = "done" THEN "ok"
    ELSE "running"

TasksOf(call) == SelectSeq(tasks, LAMBDA t : t.call = call)

\* The await of the gather of invocation call ends, and the invocation
\* with it.
GatherReturns(call) ==
    /\ call \in 1..Len(calls)
    /\ calls[call].result = "running"
    /\ Started(call)
    /\ GatherResult(TasksOf(call)) # "running"
    /\ calls' = [calls EXCEPT ![call].result = GatherResult(TasksOf(call))]
    /\ UNCHANGED <<mapping, states, sources, tasks, ext, fresh, update_error>>

\* Snapshots of the running system: devices with their full source lists.
FullSourceList(entity_id) ==
    CASE entity_id = STEREO -> <<"AUX", "DISPLAY">>
      [] entity_id = TV -> <<"HDMI 1", "HDMI 3">>
      [] entity_id = PVR -> <<"BBC">>

MainStates(entity_id) ==
    IF entity_id = PVR
    THEN {NoState,
          State(PVR, STATE_OFF, None, FullSourceList(PVR), DeviceVolume(PVR), DeviceMuted(PVR)),
          State(PVR, STATE_ON, "BBC", FullSourceList(PVR), DeviceVolume(PVR), DeviceMuted(PVR))}
    ELSE {State(entity_id, s, src, FullSourceList(entity_id),
                DeviceVolume(entity_id), DeviceMuted(entity_id)) :
            s \in (IF entity_id = STEREO THEN {STATE_ON, STATE_OFF, STATE_STANDBY}
                   ELSE {STATE_ON, STATE_OFF}),
            src \in SourceNames(entity_id)}

\* The wiring maps of the running system.
MainMappings == {MapCycle, MapSelf, MapTwice, MapEmpty}

\* What may happen to a device from outside: its integration goes away
\* (hass.states.async_remove), or somebody switches it to another of its
\* inputs (hass.states.async_set).
ExternalStates(st, entity_id) ==
    {NoState} \cup
    (IF entity_id \in DOMAIN st
     THEN {[st[entity_id] EXCEPT !.source = src] : src \in SourceNames(entity_id)}
     ELSE {})

SetState(entity_id, state) ==
    /\ ext < MaxExternal
    /\ state # StatesGet(states, entity_id)
    /\ states' = [e \in (IF state = NoState THEN DOMAIN states \ {entity_id}
                         ELSE DOMAIN states \cup {entity_id}) |->
                    IF e = entity_id THEN state ELSE states[e]]
    /\ ext' = ext + 1
    /\ fresh' = FALSE
    /\ UNCHANGED <<mapping, sources, calls, tasks, update_error>>

\* Every node of the resolved tree: the entries of _sources and their
\* ancestors.
TreeNodes(srcs) ==
    UNION {{SubSeq(srcs[i], k, Len(srcs[i])) : k \in 1..Len(srcs[i])} : i \in 1..Len(srcs)}

\* The labels a caller may ask for: the label of every node of the tree, and
\* one that no node has.
CallerLabels ==
    {InfoName(n) : n \in TreeNodes(sources)} \cup {"tv: HDMI 2"}

InitOver(maps) ==
    /\ mapping \in maps
    /\ states \in {MkStates(a, b, c) : a \in Wired(mapping, STEREO, MainStates(STEREO)),
                                       b \in Wired(mapping, TV, MainStates(TV)),
                                       c \in Wired(mapping, PVR, MainStates(PVR))}
    /\ sources = <<>>
    /\ calls = <<>>
    /\ tasks = <<>>
    /\ ext = 0
    /\ fresh = FALSE
    /\ update_error = FALSE

Init == InitOver(MainMappings)

\* No invocation is awaited.
Idle == \A c \in 1..Len(calls) : calls[c].result # "running"

\* One invocation of async_select_source, in an environment where service
\* calls may fail and snapshots may change from outside.
Next ==
    \/ AsyncUpdate
    \/ \E source \in CallerLabels : calls = <<>> /\ SelectSource(source)
    \/ \E i \in 1..Len(tasks) : GatherStarts(i)
    \/ \E i \in 1..Len(tasks), ok \in BOOLEAN : CommandReturns(i, ok)
    \/ \E c \in 1..Len(calls) : GatherReturns(c)
    \/ \E e \in AllEntities(mapping) : \E s \in ExternalStates(states, e) : SetState(e, s)

Spec == Init /\ [][Next]_vars

\* The same label selected several times in a row, each invocation after the
\* one before has returned, with devices that apply every service call and
\* nothing changing from outside.
NextTwice ==
    \/ AsyncUpdate
    \/ \E source \in CallerLabels :
          /\ Len(calls) < MaxCalls
          /\ Idle
          /\ calls # <<>> => source = calls[Len(calls)].label
          /\ SelectSource(source)
    \/ \E i \in 1..Len(tasks) : GatherStarts(i)
    \/ \E i \in 1..Len(tasks) : CommandReturns(i, TRUE)
    \/ \E c \in 1..Len(calls) : GatherReturns(c)

InitTwice == InitOver(Mappings)

SpecTwice == InitTwice /\ [][NextTwice]_vars

-----------------------------------------------------------------------------
(* Properties of the resolution (SpecResolve) *)

Chain(info) == [k \in 1..Len(info) |-> info[k].entity_id]

CyclicMaps == {MapCycle, MapSelf, MapRing}

\* C1: for every wiring map (cyclic and self-wired ones included) and every
\* set of snapshots, the resolution from the sink ends without running into
\* the recursion limit, and yields a finite list: no node lies deeper than
\* one level per entity plus one.
C1_ResolveTerminates ==
    /\ ~update_error
    /\ ~GetRootSources(states, mapping, SinkEntity(mapping, states), <<>>).err
    /\ \A i \in 1..Len(sources) : Len(sources[i]) <= Cardinality(Entities) + 1

\* A refresh over a cyclic map met the cycle: some node sits below its root.
C1_Witness ==
    /\ fresh
    /\ mapping \in CyclicMaps
    /\ \E i \in 1..Len(sources) :
          /\ Len(sources[i]) >= 2
          /\ LinkGet(MappingGet(mapping, sources[i][1].entity_id), sources[i][1].source)
                \in Range(Chain(sources[i]))

\* C2: in every resolved tree the entity ids on a node's parent chain (the
\* node up to the root) are pairwise distinct.
C2_ChainDistinct ==
    \A i \in 1..Len(sources) :
        \A j, k \in 1..Len(sources[i]) :
            j # k => sources[i][j].entity_id # sources[i][k].entity_id

\* C3: after a refresh the active nodes form one path from the root: at most
\* one entry of _sources is active and every ancestor of an active node is
\* active.
C3_SingleActivePath ==
    fresh =>
        /\ Cardinality({i \in 1..Len(sources) : sources[i][1].active}) <= 1
        /\ \A i \in 1..Len(sources) :
              sources[i][1].active => \A k \in 1..Len(sources[i]) : sources[i][k].active

\* The sink as the specification words it: the first key, in insertion
\* order, that has a snapshot whose status is outside off, else the snapshot
\* of the first key (none when it has no snapshot), else none.
SinkBySpec(off) ==
    LET keys == [i \in 1..Len(mapping) |-> mapping[i][1]]
        live(i) == keys[i] \in DOMAIN states /\ states[keys[i]].state \notin off
    IN  IF \E i \in 1..Len(keys) : live(i)
        THEN states[keys[CHOOSE i \in 1..Len(keys) :
                            live(i) /\ \A j \in 1..(i - 1) : ~live(j)]]
        ELSE IF keys # <<>> /\ keys[1] \in DOMAIN states THEN states[keys[1]]
        ELSE NoState

\* C6 as stated: the sink is the first key whose status is not one of off,
\* standby, unavailable, idle; else the first key; else none.
C6_SinkSkipsIdle ==
    SinkEntity(mapping, states)
        = SinkBySpec({STATE_OFF, STATE_STANDBY, STATE_UNAVAILABLE, STATE_IDLE})

\* C6 amended: the sink is the snapshot of the first key whose snapshot
\* exists with a status other than off, standby, unavailable (an idle entity
\* qualifies); when no key qualifies, the snapshot of the first key, which is
\* none when that entity has no snapshot; none when the map is empty.
C6_SinkFirstLive ==
    SinkEntity(mapping, states)
        = SinkBySpec({STATE_OFF, STATE_STANDBY, STATE_UNAVAILABLE})

\* An idle first key is the sink although a later key is on.
C6_Witness ==
    /\ Len(mapping) >= 2
    /\ mapping[1][1] \in DOMAIN states
    /\ states[mapping[1][1]].state = STATE_IDLE
    /\ SinkQualifies(StatesGet(states, mapping[2][1]))
    /\ SinkEntity(mapping, states) = states[mapping[1][1]]

\* The label of a device as its snapshot gives it.
DeviceLabel(state) ==
    IF state.source \in {None, ""}
    THEN state.name
    ELSE state.name \o ": " \o state.source

\* C7: after a refresh the composite source is the label of the active
\* leaf, "<name>: <current source>" of its device or the bare name when the
\* device has no current source, None when no node is active; the reported
\* source entity is the device of that node.
C7_SourceIsActiveLabel ==
    fresh =>
        LET act == {i \in 1..Len(sources) : sources[i][1].active}
            attrs == StateAttributes(mapping, states, sources)
        IN  IF act = {}
            THEN /\ SourceOf(sources) = None
                 /\ attrs.source = None
                 /\ attrs.source_entity_id = None
            ELSE \E i \in act :
                    /\ sources[i][1].entity_id \in DOMAIN states
                    /\ SourceOf(sources) = DeviceLabel(states[sources[i][1].entity_id])
                    /\ attrs.source = SourceOf(sources)
                    /\ attrs.source_entity_id = sources[i][1].entity_id

\* Both shapes of the label occur: a leaf two levels down with a source, and
\* a device without sources resolved to a single bare node.
C7_Witness ==
    /\ fresh
    /\ \E i \in 1..Len(sources) :
          /\ sources[i][1].active
          /\ Len(sources[i]) >= 2
          /\ SourceOf(sources) = "pvr"
          /\ states[PVR].source_list = <<>>

C7_WitnessSource ==
    /\ fresh
    /\ SourceOf(sources) = "tv: HDMI 3"
    /\ StateAttributes(mapping, states, sources).source_entity_id = TV

\* C8: the composite status is standby when the sink is missing or in the
\* off-set; else the sink's status when there is no active leaf; else standby
\* when the active leaf's device is in the off-set; else that device's status.
C8_CompositeStatus ==
    LET sink == SinkBySpec({STATE_OFF, STATE_STANDBY, STATE_UNAVAILABLE})
        act == {i \in 1..Len(sources) : sources[i][1].active}
        leaf == IF act = {} THEN NoState
                ELSE StatesGet(states, sources[CHOOSE i \in act : \A j \in act : i <= j][1].entity_id)
        off == {"off", "standby", "unavailable"}
    IN  StateOf(mapping, states, sources) =
            CASE sink = NoState -> "standby"
              [] sink # NoState /\ sink.state \in off -> "standby"
              [] sink # NoState /\ sink.state \notin off /\ leaf = NoState -> sink.state
              [] sink # NoState /\ sink.state \notin off /\ leaf # NoState
                    /\ leaf.state \in off -> "standby"
              [] OTHER -> leaf.state

\* The sink is on and the active leaf, another device, is off: standby.
C8_Witness ==
    /\ fresh
    /\ SinkEntity(mapping, states) # NoState
    /\ SinkEntity(mapping, states).state = STATE_ON
    /\ SourceEntity(states, sources) # NoState
    /\ SourceEntity(states, sources).entity_id # SinkEntity(mapping, states).entity_id
    /\ SourceEntity(states, sources).state = STATE_OFF
    /\ StateOf(mapping, states, sources) = STATE_STANDBY

-----------------------------------------------------------------------------
(* Properties of switching and of the published state *)

\* Task i calls a service in this step.
Issues(i) ==
    Len(tasks'[i].cmds) > (IF i <= Len(tasks) THEN Len(tasks[i].cmds) ELSE 0)

Finished(t) == t.pc \in {"done", "failed"}

\* C4: within one invocation the hops are commanded one after the other
\* from the root to the target: when a service call is made for a hop, the
\* coroutines of all hops nearer the root have finished.  (Stated for the
\* maps where no entity is wired to itself, so that no chain holds an entity
\* twice.)
C4_RootToTarget ==
    [][\A i \in 1..Len(tasks') :
          (Issues(i) /\ mapping # MapSelf) =>
              \A j \in 1..Len(tasks') :
                  (tasks'[j].call = tasks'[i].call /\ tasks'[j].hop > tasks'[i].hop)
                      => Finished(tasks'[j])]_vars

SelectsOf(call) ==
    {i \in 1..Len(tasks) : tasks[i].call = call /\ "select_source" \in Range(tasks[i].cmds)}

\* C5: the same label selected twice in a row, the first invocation having
\* succeeded: the second one calls select_source on no device.
C5_SecondCallSelectsNothing ==
    (/\ Len(calls) >= 2
     /\ calls[1].result = "ok"
     /\ calls[2].label = calls[1].label) => SelectsOf(2) = {}

\* C9: the volume level and the mute flag of the stack, as properties and as
\* published in its state attributes, are those of the sink (None when the
\* sink has none), whatever the active leaf reports.
C9_VolumeOfSink ==
    LET sink == SinkBySpec({STATE_OFF, STATE_STANDBY, STATE_UNAVAILABLE})
        volume == IF sink = NoState THEN None ELSE sink.volume_level
        muted == IF sink = NoState THEN None ELSE sink.is_volume_muted
        attrs == StateAttributes(mapping, states, sources)
    IN  /\ VolumeLevel(mapping, states) = volume
        /\ IsVolumeMuted(mapping, states) = muted
        /\ attrs.volume_level = volume
        /\ attrs.is_volume_muted = muted

\* C10: an invocation whose label is the label of no node of the resolved
\* tree ends with KeyError, and makes no service call: it starts no
\* coroutine and leaves every snapshot as it is.
C10_UnknownLabel ==
    [][(/\ Len(calls') = Len(calls) + 1
        /\ \A n \in TreeNodes(sources) : InfoName(n) # calls'[Len(calls')].label)
          => (/\ calls'[Len(calls')].result = "KeyError"
              /\ tasks' = tasks
              /\ states' = states)]_vars

\* An unknown label was asked for while the tree had nodes with devices to
\* command.
C10_Witness ==
    /\ Len(calls) = 1
    /\ calls[1].result = "KeyError"
    /\ calls[1].label = "tv: HDMI 2"
    /\ \E i \in 1..Len(sources) : Len(sources[i]) >= 2
    /\ \E e \in DOMAIN states : states[e].state = STATE_OFF

-----------------------------------------------------------------------------
(* Properties of the resolved tree, continued (SpecResolve) *)

\* The entity ids on a chain of nodes.
ChainIds(chain) == {chain[k].entity_id : k \in 1..Len(chain)}

\* The entry of _sources made for source of device entity_id under parent
\* exists (whatever its active flag).
HasEntry(entity_id, source, parent) ==
    \E i \in 1..Len(sources) :
        /\ sources[i][1].entity_id = entity_id
        /\ sources[i][1].source = source
        /\ InfoParent(sources[i]) = parent

\* C11: a source wired to a device that is on the ancestor chain of the
\* device being resolved is not descended into (no node has below it a
\* device of its own ancestor chain) and is an entry of the device itself;
\* with stereo on DISPLAY wired to tv and tv on HDMI 1 wired back to stereo
\* the composite source after the refresh is "tv: HDMI 1".
C11_CycleIsLeaf ==
    (fresh \/ update_error) =>
        /\ \A i \in 1..Len(sources) : \A k \in 2..Len(sources[i]) :
              sources[i][k - 1].entity_id
                  \notin ChainIds(SubSeq(sources[i], k + 1, Len(sources[i])))
        /\ \A n \in TreeNodes(sources) :
              LET entity_id == n[1].entity_id
                  parent == InfoParent(n)
              IN  \A source \in Range(GetSources(states[entity_id])) :
                      LinkGet(MappingGet(mapping, entity_id), source) \in ChainIds(parent)
                          => HasEntry(entity_id, source, parent)
        /\ (/\ mapping = MapCycle
            /\ STEREO \in DOMAIN states /\ TV \in DOMAIN states
            /\ states[STEREO].state = STATE_ON
            /\ states[STEREO].source = "DISPLAY"
            /\ states[TV].source = "HDMI 1")
              => SourceOf(sources) = "tv: HDMI 1"

\* The scenario of test_loop after its refresh: the entry of tv's HDMI 1
\* sits right below stereo's DISPLAY.
C11_Witness ==
    /\ fresh
    /\ mapping = MapCycle
    /\ STEREO \in DOMAIN states /\ TV \in DOMAIN states
    /\ states[STEREO].state = STATE_ON /\ states[TV].state = STATE_ON
    /\ states[STEREO].source = "DISPLAY"
    /\ states[TV].source = "HDMI 1"
    /\ SourceOf(sources) = "tv: HDMI 1"
    /\ \E i \in 1..Len(sources) :
          /\ Chain(sources[i]) = <<TV, STEREO>>
          /\ sources[i][1].source = "HDMI 1"
          /\ sources[i][1].active

\* C12: a node is active only if it is the root or its parent is active, its
\* device is powered (status outside the off-set), and, below the root, the
\* current source of the parent's device is the source that leads to it: no
\* node of a powered-off device is active.
C12_ActiveOnlyIfPowered ==
    fresh =>
        \A n \in TreeNodes(sources) :
            n[1].active =>
                /\ states[n[1].entity_id].state \notin OFF_STATES
                /\ Len(n) >= 2 =>
                      /\ n[2].active
                      /\ states[n[2].entity_id].source = n[2].source

\* C13: the sink is on and its current source is wired to a device that is
\* off: after the refresh the state is standby, the composite source is the
\* label of the off device, the source entity is that device and the sink
\* entity is the sink.
C13_OffSourceDevice ==
    LET sink == SinkEntity(mapping, states)
        wired == LinkGet(MappingGet(mapping, sink.entity_id), sink.source)
        attrs == StateAttributes(mapping, states, sources)
    IN  (/\ fresh
         /\ sink # NoState
         /\ sink.state = STATE_ON
         /\ wired \in DOMAIN states
         /\ states[wired].state = STATE_OFF)
          => /\ StateOf(mapping, states, sources) = STATE_STANDBY
             /\ SourceOf(sources) = DeviceLabel(states[wired])
             /\ attrs.source_entity_id = wired
             /\ attrs.sink_entity_id = sink.entity_id

\* C14: every snapshot is off or unavailable: after the refresh the state is
\* standby, the composite source is None, and the source list holds the
\* label of every node of the tree.
C14_AllOff ==
    (/\ fresh
     /\ \A e \in DOMAIN states : states[e].state \in {STATE_OFF, STATE_UNAVAILABLE})
      => /\ StateOf(mapping, states, sources) = STATE_STANDBY
         /\ SourceOf(sources) = None
         /\ \A n \in TreeNodes(sources) : InfoName(n) \in Range(SourceList(sources))

\* C15: the sink is on and has a source list but no current source: after
\* the refresh the state is on and the composite source is the bare name of
\* the sink.
C15_RootWithoutSource ==
    LET sink == SinkEntity(mapping, states)
    IN  (/\ fresh
         /\ sink # NoState
         /\ sink.state = STATE_ON
         /\ sink.source_list # <<>>
         /\ ~Truthy(sink.source))
          => /\ StateOf(mapping, states, sources) = STATE_ON
             /\ SourceOf(sources) = sink.name

\* C16: a source wired to an entity without snapshot is an entry of the
\* wiring device: it is in the source list, it is the composite source when
\* it is the current source of an active device, and every other source of
\* that device is resolved too (each is a node under the same parent).
C16_MissingSnapshotIsLeaf ==
    (fresh \/ update_error) =>
        /\ ~update_error
        /\ SinkEntity(mapping, states) # NoState => sources # <<>>
        /\ \A n \in TreeNodes(sources) :
              LET entity_id == n[1].entity_id
                  parent == InfoParent(n)
                  links == MappingGet(mapping, entity_id)
              IN  \A source \in Range(GetSources(states[entity_id])) :
                    /\ \E m \in TreeNodes(sources) :
                          /\ m[1].entity_id = entity_id
                          /\ m[1].source = source
                          /\ InfoParent(m) = parent
                    /\ (/\ LinkGet(links, source) # None
                        /\ LinkGet(links, source) \notin DOMAIN states)
                          => \E i \in 1..Len(sources) :
                                /\ sources[i][1].entity_id = entity_id
                                /\ sources[i][1].source = source
                                /\ InfoParent(sources[i]) = parent
                                /\ InfoName(sources[i]) \in Range(SourceList(sources))
                                /\ sources[i][1].active
                                      => SourceOf(sources) = InfoName(sources[i])

\* stereo is on DISPLAY, wired to tv, and tv has no snapshot (the first step
\* of test_stereo_and_tv): "stereo: DISPLAY" is the composite source, next
\* to stereo's other source.
C16_Witness ==
    /\ fresh
    /\ mapping = MapCycle
    /\ STEREO \in DOMAIN states
    /\ TV \notin DOMAIN states
    /\ states[STEREO].state = STATE_ON
    /\ states[STEREO].source = "DISPLAY"
    /\ SourceOf(sources) = "stereo: DISPLAY"
    /\ SourceList(sources) = <<"stereo: AUX", "stereo: DISPLAY">>

\* A sequence without its repeated elements, first occurrences kept in order.
RECURSIVE DistinctOrderPreserving(_)
DistinctOrderPreserving(s) ==
    IF s = <<>> THEN <<>>
    ELSE LET front == DistinctOrderPreserving(SubSeq(s, 1, Len(s) - 1))
         IN  IF s[Len(s)] \in Range(front) THEN front ELSE Append(front, s[Len(s)])

\* C17: the sources of a device are its source list followed by its current
\* source when that is set and not listed, in order and without duplicates;
\* no source yields two entries for the same device under the same parent.
C17_SourcesDistinct ==
    /\ \A e \in DOMAIN states :
          GetSources(states[e]) =
              DistinctOrderPreserving(
                  states[e].source_list
                      \o (IF Truthy(states[e].source) THEN <<states[e].source>> ELSE <<>>))
    /\ \A i, j \in 1..Len(sources) :
          (/\ sources[i][1].entity_id = sources[j][1].entity_id
           /\ sources[i][1].source = sources[j][1].source
           /\ InfoParent(sources[i]) = InfoParent(sources[j])) => i = j

\* C18: after a refresh the source list is sorted and holds one label for
\* every node of the resolved tree, the nodes that have a resolved child
\* included.
C18_SourceListAllNodes ==
    fresh =>
        LET list == SourceList(sources)
        IN  /\ \A i, j \in 1..Len(list) : i < j => ~LabelLess(list[j], list[i])
            /\ \A label \in Range(LabelsInOrder) :
                  Cardinality({i \in 1..Len(list) : list[i] = label})
                      = Cardinality({n \in TreeNodes(sources) : InfoName(n) = label})

-----------------------------------------------------------------------------
(* Properties of switching, continued (Spec) *)

\* C19: when a coroutine of an invocation has failed, the invocation does
\* not end well: it is still awaited or has ended with the error; and its
\* coroutines call nothing but turn_on and select_source of their own hop,
\* each at most once: no turn_off, no second select_source undoes a hop.
C19_FailureReported ==
    \A c \in 1..Len(calls) :
        LET ts == TasksOf(c)
        IN  (\E i \in 1..Len(ts) : ts[i].pc = "failed") =>
                /\ calls[c].result \in {"running", "error"}
                /\ \A i \in 1..Len(ts) :
                      /\ Range(ts[i].cmds) \subseteq {"turn_on", "select_source"}
                      /\ \A j, k \in 1..Len(ts[i].cmds) :
                            ts[i].cmds[j] = ts[i].cmds[k] => j = k

\* An invocation ended with the error of one hop after another hop's
\* turn_on had been applied: the device it switched on stays on.
C19_Witness ==
    /\ Len(calls) = 1
    /\ calls[1].result = "error"
    /\ \E i, j \in 1..Len(tasks) :
          /\ tasks[i].pc = "failed"
          /\ tasks[i].cmds # <<>>
          /\ tasks[j].pc = "done"
          /\ "turn_on" \in Range(tasks[j].cmds)
          /\ tasks[j].entity_id # tasks[i].entity_id
          /\ tasks[j].entity_id \in DOMAIN states
          /\ tasks[j].state.state = STATE_OFF
          /\ states[tasks[j].entity_id].state = STATE_ON

-----------------------------------------------------------------------------
(* Turning the stack off: async_turn_off *)

\* The orders in which list(_all_entities(mapping)) may give the entities
\* of the wiring map: _all_entities returns a set of str, whose iteration
\* order depends on the hash seed of the process.
EntitySeqs(mappings) ==
    {order \in [1..Cardinality(AllEntities(mappings)) -> AllEntities(mappings)] :
        \A i, j \in DOMAIN order : order[i] = order[j] => i = j}

\* The service calls of asyncio.gather(*[hass.services.async_call(DOMAIN,
\* SERVICE_TURN_OFF, ...) for entity_id in _all_entities(self._mapping)]),
\* as gather schedules them, in the order the set was iterated in: created
\* and not yet started.
TurnOffTasks(order, call) ==
    [k \in DOMAIN order |->
        [call |-> call, hop |-> k, entity_id |-> order[k],
         source |-> None, state |-> NoState,
         pc |-> "start_turn_off", cmds |-> <<>>]]

\* MediaStack.async_turn_off, up to the await of the gather, where it
\* returns to the event loop with the calls scheduled; the gather of no
\* call at all is done at once, and the invocation with it.
AsyncTurnOff(order) ==
    /\ Len(calls) < MaxCalls
    /\ order \in EntitySeqs(mapping)
    /\ calls' = Append(calls, [label |-> None,
                               result |-> IF DOMAIN order = {} THEN "ok" ELSE "running"])
    /\ tasks' = IF DOMAIN order = {} THEN tasks
                ELSE tasks \o TurnOffTasks(order, Len(calls) + 1)
    /\ UNCHANGED <<mapping, states, sources, ext, fresh, update_error>>

\* The event loop runs the first step of call i of the gather, which
\* issues the call and awaits its return.  Each call is a task of its own;
\* they start in the order of their creation, and what another thread
\* queued meanwhile runs between two of them.
TurnOffStarts(i) ==
    /\ i \in 1..Len(tasks)
    /\ tasks[i].pc = "start_turn_off"
    /\ \A j \in 1..(i - 1) :
          tasks[j].call = tasks[i].call => tasks[j].pc # "start_turn_off"
    /\ tasks' = [tasks EXCEPT ![i] = [@ EXCEPT !.pc = "turn_off", !.cmds = <<"turn_off">>]]
    /\ UNCHANGED <<mapping, states, sources, calls, ext, fresh, update_error>>

\* The turn_off call that task i awaits returns (ok: the device applied it,
\* else it raised).
TurnOffReturns(i, ok) ==
    /\ i \in 1..Len(tasks)
    /\ tasks[i].pc = "turn_off"
    /\ Started(tasks[i].call)
    /\ states' = IF ok THEN Apply(states, tasks[i].entity_id, "turn_off", None) ELSE states
    /\ tasks' = [tasks EXCEPT ![i].pc = IF ok THEN "done" ELSE "failed"]
    /\ fresh' = (fresh /\ states' = states)
    /\ UNCHANGED <<mapping, sources, calls, ext, update_error>>

InitOff == InitOver(Mappings)

\* One invocation of async_turn_off, with service calls that may fail and
\* snapshots that may change from outside while the calls are started.
NextOff ==
    \/ AsyncUpdate
    \/ \E order \in EntitySeqs(mapping) : calls = <<>> /\ AsyncTurnOff(order)
    \/ \E i \in 1..Len(tasks) : TurnOffStarts(i)
    \/ \E i \in 1..Len(tasks), ok \in BOOLEAN : TurnOffReturns(i, ok)
    \/ \E c \in 1..Len(calls) : GatherReturns(c)
    \/ \E e \in AllEntities(mapping) : \E s \in ExternalStates(states, e) :
          /\ calls # <<>>
          /\ ~Started(Len(calls))
          /\ SetState(e, s)

SpecOff == InitOff /\ [][NextOff]_vars

\* C20: an invocation of turn-off has one turn_off call for every entity of
\* the wiring map (keys and wired entities) and no other, all issued at once
\* whatever the tree and the snapshots are; it ends only when all of them
\* have returned, with an error exactly when one of them raised.
C20_TurnOffWaitsForAll ==
    \A c \in 1..Len(calls) :
        LET ts == TasksOf(c)
        IN  /\ \A e \in AllEntities(mapping) :
                  Cardinality({i \in 1..Len(ts) : ts[i].entity_id = e}) = 1
            /\ \A i \in 1..Len(ts) :
                  /\ ts[i].entity_id \in AllEntities(mapping)
                  /\ ts[i].cmds = IF ts[i].pc = "start_turn_off" THEN <<>> ELSE <<"turn_off">>
            /\ calls[c].result # "running" =>
                  /\ \A i \in 1..Len(ts) : ts[i].pc \in {"done", "failed"}
                  /\ calls[c].result = "error" <=> \E i \in 1..Len(ts) : ts[i].pc = "failed"

-----------------------------------------------------------------------------
(* Properties of the hops of an invocation (Spec) *)

\* C23: a hop calls turn_on if and only if the status of its device is off
\* when the hop starts, and it calls select_source, if at all, only after
\* that turn_on has returned.
C23_TurnOnIffOff ==
    \A i \in 1..Len(tasks) :
        LET t == tasks[i]
        IN  /\ "turn_on" \in Range(t.cmds)
                <=> (t.state # NoState /\ t.state.state = STATE_OFF)
            /\ t.cmds \in {<<>>, <<"turn_on">>, <<"select_source">>,
                            <<"turn_on", "select_source">>}
            /\ t.pc = "turn_on" => t.cmds = <<"turn_on">>

\* One hop powered its device on and then selected the source; another hop
\* of the same invocation, whose device was in standby, called no turn_on.
C23_Witness ==
    \E i, j \in 1..Len(tasks) :
        /\ tasks[i].call = tasks[j].call
        /\ tasks[i].cmds = <<"turn_on", "select_source">>
        /\ tasks[i].pc = "done"
        /\ tasks[j].state # NoState
        /\ tasks[j].state.state = STATE_STANDBY
        /\ tasks[j].cmds = <<"select_source">>

\* Task i decides in this step whether to call select_source: it takes its
\* first step and its device needs no power-on, or its turn_on has returned.
Decides(i) ==
    /\ i <= Len(tasks)
    /\ tasks'[i].pc \in {"select_source", "done"}
    /\ tasks[i].pc \in {"start", "turn_on"}

\* C24: a hop calls select_source if and only if the current source of its
\* device, as the snapshot shows it when the call would be made (after the
\* turn_on of that hop returned), differs from the source name of the hop.
C24_SelectIffLiveDiffers ==
    [][\A i \in 1..Len(tasks') :
          (Decides(i) /\ StatesGet(states', tasks'[i].entity_id) # NoState) =>
              (tasks'[i].pc = "select_source"
                  <=> StatesGet(states', tasks'[i].entity_id).source # tasks'[i].source)]_vars

\* C28: once the invocation has returned to its caller, none of its
\* coroutines calls a service any more.
C28_NoCommandAfterReturn ==
    [][\A i \in 1..Len(tasks') :
          Issues(i) => calls'[tasks'[i].call].result = "running"]_vars

\* The devices and source names an invocation commands, hop by hop.
HopList(ts) == [k \in 1..Len(ts) |-> <<ts[k].entity_id, ts[k].source>>]

HopsOfInfo(info) ==
    [k \in 1..Len(GetParents(info)) |->
        <<GetParents(info)[k].entity_id, GetParents(info)[k].source>>]

\* C25: the hop list of an invocation is taken from the tree as it is when
\* the invocation starts, and no later step, a refresh that replaces the
\* tree included, changes the devices and source names of its hops.
C25_HopListFixed ==
    [][/\ \A i \in 1..Len(tasks) :
            /\ i <= Len(tasks')
            /\ tasks'[i].call = tasks[i].call
            /\ tasks'[i].hop = tasks[i].hop
            /\ tasks'[i].entity_id = tasks[i].entity_id
            /\ tasks'[i].source = tasks[i].source
       /\ Len(tasks') > Len(tasks) =>
            /\ FindSource(sources, calls'[Len(calls')].label) # 0
            /\ HopList(SubSeq(tasks', Len(tasks) + 1, Len(tasks')))
                 = HopsOfInfo(sources[FindSource(sources, calls'[Len(calls')].label)])
       /\ sources' # sources => tasks' = tasks]_vars

\* A refresh has replaced the tree while the invocation awaits a command:
\* the label now resolves to other hops than the ones the invocation has.
C25_Witness ==
    /\ calls # <<>>
    /\ calls[Len(calls)].result = "running"
    /\ fresh
    /\ \E i \in 1..Len(tasks) : tasks[i].call = Len(calls) /\ tasks[i].pc \in Commands
    /\ \/ FindSource(sources, calls[Len(calls)].label) = 0
       \/ HopsOfInfo(sources[FindSource(sources, calls[Len(calls)].label)])
            # HopList(TasksOf(Len(calls)))

-----------------------------------------------------------------------------
(* What a refresh reports after an invocation (SpecTwice) *)

\* C27: after an invocation for a label of the tree has succeeded, the
\* devices having applied every command and nothing else having changed,
\* the refreshed stack reports that label as its source.
C27_SelectedIsReported ==
    (/\ Len(calls) = 1
     /\ calls[1].result = "ok"
     /\ \A i \in 1..Len(tasks) : Finished(tasks[i])
     /\ fresh) => SourceOf(sources) = calls[1].label

-----------------------------------------------------------------------------
(* Labels of the resolved entries (SpecResolve) *)

\* C29: after a refresh the labels of the resolved entries are pairwise
\* distinct, so that a label stands for one entry and one parent chain,
\* also when a device is wired behind two sources.
C29_LabelsDistinct ==
    (fresh /\ ~update_error) =>
        \A i, j \in 1..Len(sources) :
            InfoName(sources[i]) = InfoName(sources[j]) => i = j

-----------------------------------------------------------------------------
(* Playback delegation: async_play_media *)

\* The entity id of the stack itself.
SelfEntity == "media_player.media_stack"

\* next((x for x in self._sources if x.entity_id == entity_id), None), as
\* an index
FindEntity(srcs, entity_id) ==
    IF \E i \in 1..Len(srcs) : srcs[i][1].entity_id = entity_id
    THEN CHOOSE i \in 1..Len(srcs) :
            /\ srcs[i][1].entity_id = entity_id
            /\ \A j \in 1..(i - 1) : srcs[j][1].entity_id # entity_id
    ELSE 0

\* The coroutines of the routing gather of a play-media invocation (the
\* forwarded request is the task of hop 0).
RoutingOf(call) == SelectSeq(tasks, LAMBDA t : t.call = call /\ t.hop > 0)

\* MediaStack.async_play_media(media_type, "<entity_id>:<sub_id>"), up to
\* the await of the gather, where it returns to the event loop with its
\* coroutines scheduled: nothing to do for the stack's own id, KeyError
\* when no entry of _sources is of that entity.
PlayMedia(entity_id) ==
    /\ IF entity_id = SelfEntity
       THEN /\ calls' = Append(calls, [label |-> entity_id, result |-> "ok"])
            /\ UNCHANGED tasks
       ELSE IF FindEntity(sources, entity_id) = 0
       THEN /\ calls' = Append(calls, [label |-> entity_id, result |-> "KeyError"])
            /\ UNCHANGED tasks
       ELSE /\ calls' = Append(calls, [label |-> entity_id, result |-> "running"])
            /\ tasks' = tasks \o Gather(Len(calls) + 1,
                                        sources[FindEntity(sources, entity_id)])
    /\ UNCHANGED <<mapping, states, sources, ext, fresh, update_error>>

\* The await of the gather ends.  With an exception the invocation ends;
\* otherwise component.get_entity(entity_id) is looked up (registered: the
\* component has that player), the invocation ends with an exception when
\* there is none, and else player.async_play_media(media_type, sub_id) is
\* called and awaited.
PlayGatherReturns(call, registered) ==
    /\ call \in 1..Len(calls)
    /\ calls[call].result = "running"
    /\ \A i \in 1..Len(tasks) : tasks[i].call = call => tasks[i].hop > 0
    /\ Started(call)
    /\ GatherResult(RoutingOf(call)) # "running"
    /\ IF GatherResult(RoutingOf(call)) = "ok" /\ registered
       THEN /\ tasks' = Append(tasks, [call |-> call, hop |-> 0,
                                       entity_id |-> calls[call].label,
                                       source |-> None, state |-> NoState,
                                       pc |-> "play_media", cmds |-> <<"play_media">>])
            /\ UNCHANGED calls
       ELSE /\ calls' = [calls EXCEPT ![call].result = "error"]
            /\ UNCHANGED tasks
    /\ UNCHANGED <<mapping, states, sources, ext, fresh, update_error>>

\* The forwarded play request returns (ok) or raises, and the invocation
\* ends with it.
PlayForwardReturns(i, ok) ==
    /\ i \in 1..Len(tasks)
    /\ tasks[i].pc = "play_media"
    /\ tasks' = [tasks EXCEPT ![i].pc = IF ok THEN "done" ELSE "failed"]
    /\ calls' = [calls EXCEPT ![tasks[i].call].result = IF ok THEN "ok" ELSE "error"]
    /\ UNCHANGED <<mapping, states, sources, ext, fresh, update_error>>

InitPlay == InitOver(Mappings)

\* One invocation of async_play_media, for the stack itself or for one of
\* the devices, with service calls that may fail and snapshots that may
\* change from outside.
NextPlay ==
    \/ AsyncUpdate
    \/ \E entity_id \in Entities \cup {SelfEntity} : calls = <<>> /\ PlayMedia(entity_id)
    \/ \E i \in 1..Len(tasks) : GatherStarts(i)
    \/ \E i \in 1..Len(tasks), ok \in BOOLEAN : CommandReturns(i, ok)
    \/ \E c \in 1..Len(calls), registered \in BOOLEAN : PlayGatherReturns(c, registered)
    \/ \E i \in 1..Len(tasks), ok \in BOOLEAN : PlayForwardReturns(i, ok)
    \/ \E e \in AllEntities(mapping) : \E s \in ExternalStates(states, e) : SetState(e, s)

SpecPlay == InitPlay /\ [][NextPlay]_vars

\* The devices of the resolved tree.
TreeEntities(srcs) == {n[1].entity_id : n \in TreeNodes(srcs)}

\* C21: a play-media request for a device of the resolved tree starts the
\* routing of the chain to that device, and the request is forwarded to the
\* device only when every coroutine of the routing has ended well: never
\* before, and never when one of them failed.
C21_PlayRoutesThenForwards ==
    [][/\ (Len(calls') > Len(calls)
            /\ calls'[Len(calls')].label \in TreeEntities(sources))
           => calls'[Len(calls')].result = "running"
       /\ \A i \in 1..Len(tasks') :
            tasks'[i].hop = 0 =>
                \A j \in 1..Len(tasks') :
                    (tasks'[j].call = tasks'[i].call /\ tasks'[j].hop > 0)
                        => tasks'[j].pc = "done"]_vars

\* C30: a play-media invocation calls select_source on no hop of the device
\* the request is for, so that the source of that device stays as it is.
C30_TargetNotSelected ==
    \A i \in 1..Len(tasks) :
        tasks[i].entity_id = calls[tasks[i].call].label
            => "select_source" \notin Range(tasks[i].cmds)

-----------------------------------------------------------------------------
(* Forwarded service calls: _async_call_sink and _async_call_source *)

\* The services the stack forwards through _async_call_sink
SinkServices == {"volume_mute", "volume_set", "volume_up", "volume_down"}

\* The services the stack forwards through _async_call_source
SourceServices ==
    {"turn_on", "media_play", "media_pause", "media_stop", "media_previous_track",
     "media_next_track", "media_seek", "media_play_pause", "clear_playlist",
     "shuffle_set"}

\* A stack that forwards every service to the active source device.
CallTargetSource(mappings, st, srcs, service) == SourceEntity(st, srcs)

\* The snapshot _async_call_service is given for a service: _sink_entity
\* or _source_entity.
CallTarget(mappings, st, srcs, service) ==
    IF service \in SinkServices THEN SinkEntity(mappings, st) ELSE SourceEntity(st, srcs)

\* One of the forwarding methods, up to the await of the service call:
\* _async_call_service raises when the snapshot is None and else calls the
\* service on state.entity_id.
CallService(service) ==
    /\ LET state == CallTarget(mapping, states, sources, service)
       IN  IF state = NoState
           THEN /\ calls' = Append(calls, [label |-> service, result |-> "error"])
                /\ UNCHANGED tasks
           ELSE /\ calls' = Append(calls, [label |-> service, result |-> "running"])
                /\ tasks' = Append(tasks, [call |-> Len(calls) + 1, hop |-> 0,
                                           entity_id |-> state.entity_id,
                                           source |-> None, state |-> state,
                                           pc |-> service, cmds |-> <<service>>])
    /\ UNCHANGED <<mapping, states, sources, ext, fresh, update_error>>

\* The forwarded service call returns (ok: the device did it; a device
\* that was turned on reports it) or raises, and the method ends with it.
ServiceReturns(i, ok) ==
    /\ i \in 1..Len(tasks)
    /\ tasks[i].pc \in SinkServices \cup SourceServices
    /\ tasks' = [tasks EXCEPT ![i].pc = IF ok THEN "done" ELSE "failed"]
    /\ calls' = [calls EXCEPT ![tasks[i].call].result = IF ok THEN "ok" ELSE "error"]
    /\ states' = IF ok /\ tasks[i].pc = "turn_on"
                 THEN Apply(states, tasks[i].entity_id, "turn_on", None)
                 ELSE states
    /\ fresh' = (fresh /\ states' = states)
    /\ UNCHANGED <<mapping, sources, ext, update_error>>

InitCall == InitOver(Mappings)

\* One forwarded service call, before or after a refresh.
NextCall ==
    \/ AsyncUpdate
    \/ \E service \in SinkServices \cup SourceServices : calls = <<>> /\ CallService(service)
    \/ \E i \in 1..Len(tasks), ok \in BOOLEAN : ServiceReturns(i, ok)

SpecCall == InitCall /\ [][NextCall]_vars

\* C26: a volume service goes to the sink and to no other device, a
\* transport service or turn_on to the device of the active leaf and to no
\* other; when there is no such device the method raises and calls no
\* service.
C26_ForwardedToSinkOrSource ==
    [][Len(calls') > Len(calls) =>
          LET service == calls'[Len(calls')].label
              target == IF service \in SinkServices
                        THEN SinkEntity(mapping, states)
                        ELSE SourceEntity(states, sources)
          IN  IF target = NoState
              THEN calls'[Len(calls')].result = "error" /\ tasks' = tasks
              ELSE /\ calls'[Len(calls')].result = "running"
                   /\ Len(tasks') = Len(tasks) + 1
                   /\ tasks'[Len(tasks')].entity_id = target.entity_id
                   /\ tasks'[Len(tasks')].cmds = <<service>>]_vars

\* A volume service was forwarded to the sink while the active leaf is of
\* another device, and it returned.
C26_Witness ==
    /\ Len(calls) = 1
    /\ calls[1].label = "volume_set"
    /\ calls[1].result = "ok"
    /\ SourceEntity(states, sources) # NoState
    /\ tasks[1].entity_id = SinkEntity(mapping, states).entity_id
    /\ tasks[1].entity_id # SourceEntity(states, sources).entity_id

-----------------------------------------------------------------------------
(* Capabilities: supported_features *)

\* The bits of a supported_features mask, by name; a mask is the set of
\* its bits, | is \cup, & is \cap and & ~ is set difference.
SUPPORT_SELECT_SOURCE == "select_source"
SUPPORTED_ANY == {"browse_media", "play_media"}
SUPPORTED_SINK == {"volume_mute", "volume_set", "volume_step"}
Features ==
    {SUPPORT_SELECT_SOURCE, "pause", "next_track"} \cup SUPPORTED_ANY \cup SUPPORTED_SINK

\* A _get_attribute that falls back to the default also for a snapshot
\* without the attribute.
GetAttributeOrDefault(state, attribute, default) ==
    IF state # NoState
    THEN IF attribute \in DOMAIN state THEN state[attribute] ELSE default
    ELSE default

\* _get_attribute(state, attribute, default): state.attributes.get(attribute)
\* of a snapshot, which is None when the snapshot has no such attribute;
\* the default only when there is no snapshot.
GetAttributeOr(state, attribute, default) ==
    IF state # NoState
    THEN IF attribute \in DOMAIN state THEN state[attribute] ELSE None
    ELSE default

\* Whether _get_attribute(state, attribute, default) is None.
IsNone(state, attribute) == state # NoState /\ attribute \notin DOMAIN state

\* MediaStack.supported_features.  err: a TypeError was raised, which
\* happens when one of the operands of |= or & is None.
SupportedFeatures(mappings, st, srcs) ==
    LET of_source == GetAttributeOr(SourceEntity(st, srcs), "supported_features", {})
        of_sink == GetAttributeOr(SinkEntity(mappings, st), "supported_features", {})
        of_any == [e \in AllEntities(mappings) |->
                      GetAttributeOr(StatesGet(st, e), "supported_features", {})]
    IN  IF \/ IsNone(SourceEntity(st, srcs), "supported_features")
           \/ IsNone(SinkEntity(mappings, st), "supported_features")
           \/ \E e \in AllEntities(mappings) : IsNone(StatesGet(st, e), "supported_features")
        THEN [err |-> TRUE, out |-> {}]
        ELSE [err |-> FALSE,
              out |-> ((((of_source \cup {SUPPORT_SELECT_SOURCE}) \ SUPPORTED_SINK)
                          \cup (of_sink \cap SUPPORTED_SINK)) \ SUPPORTED_ANY)
                      \cup (UNION {of_any[e] : e \in DOMAIN of_any} \cap SUPPORTED_ANY)]

\* What a device may publish as supported_features: nothing (<<>>: the
\* snapshot has no such attribute), or one of two masks (<<mask>>).
DeviceFeatures(entity_id) ==
    CASE entity_id = STEREO ->
            {<<>>, <<{"volume_set", "volume_mute"}>>,
             <<{"volume_set", "volume_step", "browse_media", "pause"}>>}
      [] entity_id = TV ->
            {<<>>, <<{"volume_set", "play_media", "pause", SUPPORT_SELECT_SOURCE}>>, <<{}>>}
      [] entity_id = PVR ->
            {<<>>, <<{"play_media", "next_track", "volume_mute"}>>, <<{"browse_media"}>>}

\* The snapshot with the attribute supported_features set (<<>>: left out)
WithFeatures(state, supported_features) ==
    IF state = NoState \/ supported_features = <<>> THEN state
    ELSE [a \in DOMAIN state \cup {"supported_features"} |->
            IF a = "supported_features" THEN supported_features[1] ELSE state[a]]

InitFeatures ==
    /\ mapping \in Mappings
    /\ states \in {MkStates(WithFeatures(a, fa), WithFeatures(b, fb), WithFeatures(c, fc)) :
                        a \in Wired(mapping, STEREO, MainStates(STEREO)),
                        b \in Wired(mapping, TV, MainStates(TV)),
                        c \in Wired(mapping, PVR, MainStates(PVR)),
                        fa \in DeviceFeatures(STEREO),
                        fb \in DeviceFeatures(TV),
                        fc \in DeviceFeatures(PVR)}
    /\ sources = <<>>
    /\ calls = <<>>
    /\ tasks = <<>>
    /\ ext = 0
    /\ fresh = FALSE
    /\ update_error = FALSE

NextFeatures == AsyncUpdate

SpecFeatures == InitFeatures /\ [][NextFeatures]_vars

\* The capabilities a device has: those its snapshot publishes, none when
\* there is no snapshot or it publishes none.
FeaturesOf(state) == GetAttributeOrDefault(state, "supported_features", {})

\* C22: the capabilities of the stack always hold select_source; its volume
\* capabilities are those of the sink; its browse_media and play_media are
\* those of any device of the wiring map; all its other capabilities are
\* those of the device of the active leaf (none without an active leaf).
C22_Capabilities ==
    LET supported == SupportedFeatures(mapping, states, sources)
        others == Features \ (SUPPORTED_SINK \cup SUPPORTED_ANY \cup {SUPPORT_SELECT_SOURCE})
    IN  /\ ~supported.err
        /\ SUPPORT_SELECT_SOURCE \in supported.out
        /\ supported.out \cap SUPPORTED_SINK
             = FeaturesOf(SinkEntity(mapping, states)) \cap SUPPORTED_SINK
        /\ supported.out \cap SUPPORTED_ANY
             = UNION {FeaturesOf(StatesGet(states, e)) : e \in AllEntities(mapping)}
                 \cap SUPPORTED_ANY
        /\ supported.out \cap others = FeaturesOf(SourceEntity(states, sources)) \cap others

=============================================================================
